---- MODULE Spec2Model ----
(***************************************************************************)
(* Cache-aware indexing and retrieval pipeline of the semantic search      *)
(* engine: CacheManager (src/cache_manager.py), SearchEngine               *)
(* (src/search_engine.py) and Ranker (src/ranker.py).                      *)
(*                                                                         *)
(* One SearchEngine object works on the files of one installation: the     *)
(* document files and data/metadata.json written by preprocessing, the     *)
(* cache file, the index file and the id-map file.  build_index and        *)
(* load_index are split at their file accesses, so that a build, a load    *)
(* and a crash (Restart) interleave the way the file system lets them.     *)
(***************************************************************************)
EXTENDS Integers, Sequences, FiniteSets, TLC

\* ------------------------------------------------------------------ bounds
NumDocs == 2        \* documents the corpus can hold (doc_001 .. doc_00N)
MaxText == 2        \* distinct document / query texts
MaxTime == 1        \* times the clock int(time.time()) advances
MaxEnvOps == 2      \* corpus edits and process restarts in one behaviour
MaxBuilds == 2      \* build_index calls in one behaviour
MaxCand == 3        \* candidates in a list handed to rerank
MaxScore == 2       \* distinct similarity scores above the lowest
MaxWord == 13       \* words in the vocabulary of the explained texts
NumManagers == 2    \* CacheManager instances open on one cache file
MaxSets == 2        \* set calls of those instances in one behaviour
MaxRetries == 3     \* largest retries an Embedder is constructed with

DocNums == 1..NumDocs
Managers == 1..NumManagers
Texts == 1..MaxText
\* the queries tried: the first and the last text
Queries == {1, MaxText}
\* top_k from 1 to one more than the corpus can hold
TopKs == 1..(NumDocs + 1)

\* ----------------------------------------------------------- preprocessing
\* f"doc_{saved:03d}"
DocId(n) == "doc_00" \o ToString(n)

DocIds == {DocId(n) : n \in DocNums}

\* DATA_DIR / f"{doc_id}.txt"
PathOf(d) == "data/docs/" \o d \o ".txt"

\* hashlib.sha256(text).hexdigest(): a digest, one per text
compute_sha256(t) == 1000 + 37 * t

NoText == 0

RECURSIVE MetasFrom(_, _)
\* build_metadata: the doc files that exist, in sorted order, each with the
\* hash of its present text
MetasFrom(files, n) ==
    IF n > NumDocs THEN <<>>
    ELSE (IF files[DocId(n)] = NoText THEN <<>>
          ELSE <<[doc_id |-> DocId(n), path |-> PathOf(DocId(n)),
                  hash |-> compute_sha256(files[DocId(n)])]>>)
         \o MetasFrom(files, n + 1)

build_metadata(files) == MetasFrom(files, 1)

\* ---------------------------------------------------------------- embedder
\* the provider: a deterministic text -> vector map (dimension 2 here)
Encode(t) == <<t, MaxText + 1 - t>>

\* Embedder.embed_texts: one vector per text, in order
embed_texts(texts) == [i \in 1..Len(texts) |-> Encode(texts[i])]

\* Embedder.embed_query
embed_query(q) == Encode(q)

\* inner product, as IndexFlatIP scores a row against the query
InnerProduct(u, v) == u[1] * v[1] + u[2] * v[2]

\* ------------------------------------------------------------ cache manager
NoEntry == [present |-> FALSE, doc_id |-> "", embedding |-> <<>>,
            hash |-> 0, updated_at |-> 0]

EmptyCache == [d \in DocIds |-> NoEntry]

\* CacheManager.get: self._data.get(doc_id)
CacheGet(data, d) == data[d]

\* the truth value Python gives a get() result: None is false, an entry
\* written by set is a non-empty dict and true
Truthy(entry) == entry.present

\* variant: the written entry is the only one kept
CacheSetAlone(data, d, emb, h, t) ==
    [x \in DocIds |->
        IF x = d
        THEN [present |-> TRUE, doc_id |-> d, embedding |-> emb,
              hash |-> h, updated_at |-> t]
        ELSE NoEntry]

\* CacheManager.set: the entry written for doc_id
CacheSet(data, d, emb, h, t) ==
    [data EXCEPT ![d] = [present |-> TRUE, doc_id |-> d, embedding |-> emb,
                         hash |-> h, updated_at |-> t]]

VARIABLES
    docFile,     \* data/docs/*.txt: doc_id -> text, NoText when there is no file
    metadata,    \* SearchEngine.metadata, read at construction
    cacheData,   \* CacheManager._data
    cacheFile,   \* cache/embeddings.json
    now,         \* int(time.time())
    indexFile,   \* vector_store/vector_index.faiss
    idMapFile,   \* vector_store/id_map.json
    index,       \* SearchEngine.index
    id_map,      \* SearchEngine.id_map
    bpc,         \* where build_index stands
    pending,     \* build_index's local doc_ids between its two file writes
    lpc,         \* where load_index stands
    builds,      \* number of build_index calls so far
    envOps,      \* number of corpus edits and restarts so far
    loaded,      \* which of index / id_map load_index has assigned
    torn,        \* a build was cut off between its two file writes
    lastBuild,   \* record of the latest build_index call
    lastSearch,  \* record of the latest search call
    lastReconcile, \* record of the latest bulk_get_changed call
    candidates,  \* the list a caller hands to Ranker.rerank
    lastRank,    \* record of the latest rerank call
    pipeline,    \* api._pipeline is not None
    lastRequest, \* record of the latest POST /search
    loadCall,    \* a cache file and the CacheManager constructed on it
    explainCall, \* a query, a document text and their explanation
    managers,    \* the CacheManager instances open on cache/embeddings.json
    setDone,     \* the set calls that have returned, oldest first
    embedder,    \* an Embedder under construction
    loadTag      \* marks of the load_index calls that assigned index, id_map

vars == <<docFile, metadata, cacheData, cacheFile, now, indexFile,
          idMapFile, index, id_map, bpc, pending, lpc, builds, envOps,
          loaded, torn, lastBuild, lastSearch, lastReconcile, candidates,
          lastRank, pipeline, lastRequest, loadCall, explainCall, managers,
          setDone, embedder, loadTag>>

\* data/metadata.json as create_metadata.main leaves it: preprocessing
\* rewrites it from the document files each time it runs
MetadataFile == build_metadata(docFile)

\* ------------------------------------------------------------ search engine
NoIndexFile == [exists |-> FALSE, build |-> 0, vecs |-> <<>>]
NoIdMapFile == [exists |-> FALSE, build |-> 0, map |-> [k \in {} |-> ""]]

\* self.index = None / self.id_map = None
NoneIndex == NoIndexFile
NoneIdMap == NoIdMapFile

NoBuild == [status |-> "none", before |-> EmptyCache, sent |-> <<>>,
            again |-> FALSE, embed_calls |-> 0]

NoSearch == [status |-> "none", top_k |-> 0, indices |-> <<>>,
             results |-> <<>>, embedded |-> FALSE]

\* no bulk_get_changed call stands
NoReconcile == [status |-> "none", metas |-> <<>>, before |-> EmptyCache,
                fileBefore |-> EmptyCache,
                result |-> [d \in {} |-> NoEntry]]

\* no CacheManager is being constructed beside the engine's own
NoLoad == [file |-> [kind |-> "missing", map |-> EmptyCache],
           status |-> "none", data_kind |-> "none", data |-> EmptyCache,
           got |-> [status |-> "none", entry |-> NoEntry]]

\* neither self.index nor self.id_map has been assigned by a load_index call
NoTags == [index |-> 0, id_map |-> 0]

\* self.index has been assigned by a load_index call that has not assigned
\* self.id_map: the marks differ
IndexTagged(tags) == [tags EXCEPT !.index = 2]

\* self.id_map has been assigned by the call that assigned self.index: the
\* marks are equal
PairTagged == [index |-> 1, id_map |-> 1]

\* no second CacheManager is open on the cache file
NoManagers == [m \in Managers |-> [open |-> FALSE, data |-> EmptyCache]]

\* no Embedder is being constructed
NoEmbedder == [pc |-> "none", retries |-> 0, local_dir |-> FALSE,
               hub |-> FALSE, attempt |-> 0, model |-> "None",
               tried |-> 0, slept |-> 0, type_error |-> FALSE,
               fallback |-> FALSE, raised |-> "none"]

\* no explanation is being computed
NoExplain == [query |-> <<>>, doc_text |-> <<>>, status |-> "none",
              overlap_list |-> <<>>, overlap_ratio |-> [num |-> 0, den |-> 1],
              length_norm |-> 0]

\* no POST /search stands
NoRequest == [status |-> 0, query |-> [pad |-> 0, text |-> 0], top_k |-> 0,
              denied |-> {}, constructed |-> FALSE, queried |-> FALSE,
              out |-> [status |-> "none", ranked |-> <<>>, results |-> <<>>],
              results |-> <<>>]

\* no rerank call stands
NoRank == [status |-> "none", top_k |-> 0, given |-> <<>>, out |-> <<>>,
           again |-> <<>>]

\* variant: every position is recomputed, whatever the cache holds
compute_indices_all(all_docs, data) == [i \in 1..Len(all_docs) |-> i]

\* build_index, "if cached:" over enumerate(all_docs): the positions whose
\* embedding has to be computed, ascending
compute_indices(all_docs, data) ==
    SelectSeq([i \in 1..Len(all_docs) |-> i],
              LAMBDA i : ~Truthy(CacheGet(data, all_docs[i].doc_id)))

\* build_index: to_compute, the texts of those positions
to_compute(all_docs, data, texts) ==
    LET ci == compute_indices(all_docs, data)
    IN  [j \in 1..Len(ci) |-> texts[ci[j]]]

RECURSIVE SetAll(_, _, _, _, _, _)
\* build_index: for idx, emb in zip(compute_indices, new_embs): cache.set(...)
SetAll(data, all_docs, ci, new_embs, t, j) ==
    IF j > Len(ci) \/ j > Len(new_embs) THEN data
    ELSE SetAll(CacheSet(data, all_docs[ci[j]].doc_id, new_embs[j],
                         all_docs[ci[j]].hash, t),
                all_docs, ci, new_embs, t, j + 1)

\* position of idx in compute_indices
SlotOf(ci, idx) == CHOOSE j \in 1..Len(ci) : ci[j] = idx

\* variant: the computed vectors first, the cached ones after them
EmbeddingsAppended(all_docs, data, ci, new_embs) ==
    LET hits == SelectSeq([i \in 1..Len(all_docs) |-> i],
                          LAMBDA i : Truthy(CacheGet(data, all_docs[i].doc_id)))
    IN  new_embs \o [j \in 1..Len(hits) |->
                        CacheGet(data, all_docs[hits[j]].doc_id).embedding]

\* build_index: the embeddings list once the computed vectors are put back
\* at their positions (embeddings[idx] = emb)
Embeddings(all_docs, data, ci, new_embs) ==
    [i \in 1..Len(all_docs) |->
        IF Truthy(CacheGet(data, all_docs[i].doc_id))
        THEN CacheGet(data, all_docs[i].doc_id).embedding
        ELSE new_embs[SlotOf(ci, i)]]

\* build_index: id_map = {i: doc_id ...} as json.dump writes it, the integer
\* keys turned into their decimal strings
IdMapOf(doc_ids) ==
    [k \in {ToString(i - 1) : i \in 1..Len(doc_ids)} |->
        doc_ids[CHOOSE i \in 1..Len(doc_ids) : ToString(i - 1) = k]]

\* a corpus of the first n documents, document i holding text 1 for i = 1
\* and text MaxText for the others
CorpusOf(n) ==
    [d \in DocIds |-> IF d = DocId(1) THEN 1
                      ELSE IF \E i \in 2..n : d = DocId(i) THEN MaxText
                      ELSE NoText]

\* a new process over the corpus files, nothing built
EngineInitOver(files) ==
    /\ docFile = files
    /\ metadata = MetadataFile
    /\ cacheData = EmptyCache
    /\ cacheFile = EmptyCache
    /\ now = 0
    /\ indexFile = NoIndexFile
    /\ idMapFile = NoIdMapFile
    /\ index = NoneIndex
    /\ id_map = NoneIdMap
    /\ bpc = "idle"
    /\ pending = <<>>
    /\ lpc = "idle"
    /\ builds = 0
    /\ envOps = 0
    /\ loaded = [index |-> FALSE, id_map |-> FALSE]
    /\ torn = FALSE
    /\ lastBuild = NoBuild
    /\ lastSearch = NoSearch
    /\ pipeline = FALSE
    /\ lastRequest = NoRequest

EngineInit == EngineInitOver(CorpusOf(1))

\* a new process over a corpus of one document, no call standing
Init ==
    /\ EngineInit
    /\ lastReconcile = NoReconcile
    /\ candidates = <<>>
    /\ lastRank = NoRank
    /\ loadCall = NoLoad
    /\ explainCall = NoExplain
    /\ managers = NoManagers
    /\ setDone = <<>>
    /\ embedder = NoEmbedder
    /\ loadTag = NoTags

\* search, bulk_get_changed and rerank are each one step; the call's record
\* holds its outcome until the call returns, and nothing else happens in
\* between
Quiet ==
    /\ lastSearch = NoSearch
    /\ lastReconcile = NoReconcile
    /\ lastRank = NoRank
    /\ lastRequest = NoRequest

\* --------------------------------------------------------------- environment
\* time passes
Tick ==
    /\ Quiet
    /\ now < MaxTime
    /\ now' = now + 1
    /\ UNCHANGED <<docFile, metadata, cacheData, cacheFile, indexFile,
                   idMapFile, index, id_map, bpc, pending, lpc, builds,
                   envOps, loaded, torn, lastBuild, lastSearch,
                   lastReconcile, candidates, lastRank, pipeline,
                   lastRequest, loadCall, explainCall, managers, setDone,
                   embedder, loadTag>>

\* preprocessing: a document file is written, rewritten or removed, and
\* data/metadata.json is regenerated from the files
EditDoc(d, t) ==
    /\ Quiet
    /\ envOps < MaxEnvOps
    /\ docFile[d] # t
    /\ docFile' = [docFile EXCEPT ![d] = t]
    /\ envOps' = envOps + 1
    /\ lastBuild' = NoBuild
    /\ UNCHANGED <<metadata, cacheData, cacheFile, now, indexFile,
                   idMapFile, index, id_map, bpc, pending, lpc, builds,
                   loaded, torn, lastSearch, lastReconcile, candidates,
                   lastRank, pipeline, lastRequest, loadCall, explainCall,
                   managers, setDone, embedder, loadTag>>

\* SearchEngine.__init__: a new process, api._pipeline None in it; whatever
\* the old one was doing ends
Restart ==
    /\ Quiet
    /\ envOps < MaxEnvOps
    /\ envOps' = envOps + 1
    /\ metadata' = MetadataFile
    /\ cacheData' = cacheFile
    /\ index' = NoneIndex
    /\ id_map' = NoneIdMap
    /\ bpc' = "idle"
    /\ pending' = <<>>
    /\ lpc' = "idle"
    /\ loaded' = [index |-> FALSE, id_map |-> FALSE]
    /\ torn' = (torn \/ bpc = "wrote_index")
    /\ lastBuild' = NoBuild
    /\ lastSearch' = NoSearch
    /\ pipeline' = FALSE
    /\ loadTag' = NoTags
    /\ UNCHANGED <<docFile, cacheFile, now, indexFile, idMapFile, builds,
                   lastReconcile, candidates, lastRank, lastRequest,
                   loadCall, explainCall, managers, setDone, embedder>>

\* ------------------------------------------------------------------ build_index
\* a document file cannot be opened: FileNotFoundError before anything is done
BuildReadError ==
    /\ Quiet
    /\ bpc = "idle"
    /\ builds < MaxBuilds
    /\ \E i \in 1..Len(metadata) : docFile[metadata[i].doc_id] = NoText
    /\ builds' = builds + 1
    /\ lastBuild' = [status |-> "read_error", before |-> cacheData,
                     sent |-> <<>>, again |-> (lastBuild.status = "ok"),
                     embed_calls |-> 0]
    /\ UNCHANGED <<docFile, metadata, cacheData, cacheFile, now, indexFile,
                   idMapFile, index, id_map, bpc, pending, lpc, envOps,
                   loaded, torn, lastSearch, lastReconcile, candidates,
                   lastRank, pipeline, lastRequest, loadCall, explainCall,
                   managers, setDone, embedder, loadTag>>

\* variant: the embeddings are computed one document at a time and the call
\* for the second raises, after the first has been cached
BuildEmbedErrorAfterSet ==
    /\ Quiet
    /\ bpc = "idle"
    /\ builds < MaxBuilds
    /\ \A i \in 1..Len(metadata) : docFile[metadata[i].doc_id] # NoText
    /\ compute_indices(metadata, cacheData) # <<>>
    /\ builds' = builds + 1
    /\ LET ci == compute_indices(metadata, cacheData)
           first == metadata[ci[1]]
       IN /\ cacheData' = CacheSet(cacheData, first.doc_id,
                                   Encode(docFile[first.doc_id]), first.hash,
                                   now)
          /\ cacheFile' = cacheData'
    /\ lastBuild' = [status |-> "embed_error", before |-> cacheData,
                     sent |-> <<>>, again |-> (lastBuild.status = "ok"),
                     embed_calls |-> 1]
    /\ UNCHANGED <<docFile, metadata, now, indexFile, idMapFile, index,
                   id_map, bpc, pending, lpc, envOps, loaded, torn,
                   lastSearch, lastReconcile, candidates, lastRank,
                   pipeline, lastRequest, loadCall, explainCall, managers,
                   setDone, embedder, loadTag>>

\* embed_texts raises: the exception leaves build_index at its one call of
\* embed_texts, before any cache.set
BuildEmbedError ==
    /\ Quiet
    /\ bpc = "idle"
    /\ builds < MaxBuilds
    /\ \A i \in 1..Len(metadata) : docFile[metadata[i].doc_id] # NoText
    /\ compute_indices(metadata, cacheData) # <<>>
    /\ builds' = builds + 1
    /\ lastBuild' = [status |-> "embed_error", before |-> cacheData,
                     sent |-> to_compute(metadata, cacheData,
                                [i \in 1..Len(metadata) |-> docFile[metadata[i].doc_id]]),
                     again |-> (lastBuild.status = "ok"),
                     embed_calls |-> 1]
    /\ UNCHANGED <<docFile, metadata, cacheData, cacheFile, now, indexFile,
                   idMapFile, index, id_map, bpc, pending, lpc, envOps,
                   loaded, torn, lastSearch, lastReconcile, candidates,
                   lastRank, pipeline, lastRequest, loadCall, explainCall,
                   managers, setDone, embedder, loadTag>>

\* variant: build_index assigns the index it has built to self.index
BuildBeginAssigning ==
    /\ Quiet
    /\ bpc = "idle"
    /\ builds < MaxBuilds
    /\ \A i \in 1..Len(metadata) : docFile[metadata[i].doc_id] # NoText
    /\ LET all_docs == metadata
           texts == [i \in 1..Len(all_docs) |-> docFile[all_docs[i].doc_id]]
           ci == compute_indices(all_docs, cacheData)
           tc == to_compute(all_docs, cacheData, texts)
           new_embs == embed_texts(tc)
           data2 == SetAll(cacheData, all_docs, ci, new_embs, now, 1)
           embs == Embeddings(all_docs, cacheData, ci, new_embs)
           rec == [status |-> "running", before |-> cacheData, sent |-> tc,
                   again |-> (lastBuild.status = "ok"),
                   embed_calls |-> IF tc = <<>> THEN 0 ELSE 1]
       IN  /\ builds' = builds + 1
           /\ cacheData' = data2
           /\ cacheFile' = data2
           /\ IF Len(all_docs) = 0
              THEN \* np.vstack([]) raises ValueError
                   /\ lastBuild' = [rec EXCEPT !.status = "empty_error"]
                   /\ UNCHANGED <<indexFile, bpc, pending, index>>
              ELSE /\ lastBuild' = rec
                   /\ indexFile' = [exists |-> TRUE, build |-> builds + 1, vecs |-> embs]
                   /\ index' = indexFile'
                   /\ pending' = [i \in 1..Len(all_docs) |-> all_docs[i].doc_id]
                   /\ bpc' = "wrote_index"
    /\ UNCHANGED <<docFile, metadata, now, idMapFile, id_map, lpc,
                   envOps, loaded, torn, lastSearch, lastReconcile,
                   candidates, lastRank, pipeline, lastRequest, loadCall,
                   explainCall, managers, setDone, embedder, loadTag>>

\* lines 56-109: texts read, cache consulted, missing embeddings computed and
\* cached, matrix stacked, index written
BuildBegin ==
    /\ Quiet
    /\ bpc = "idle"
    /\ builds < MaxBuilds
    /\ \A i \in 1..Len(metadata) : docFile[metadata[i].doc_id] # NoText
    /\ LET all_docs == metadata
           texts == [i \in 1..Len(all_docs) |-> docFile[all_docs[i].doc_id]]
           ci == compute_indices(all_docs, cacheData)
           tc == to_compute(all_docs, cacheData, texts)
           new_embs == embed_texts(tc)
           data2 == SetAll(cacheData, all_docs, ci, new_embs, now, 1)
           embs == Embeddings(all_docs, cacheData, ci, new_embs)
           rec == [status |-> "running", before |-> cacheData, sent |-> tc,
                   again |-> (lastBuild.status = "ok"),
                   embed_calls |-> IF tc = <<>> THEN 0 ELSE 1]
       IN  /\ builds' = builds + 1
           /\ cacheData' = data2
           /\ cacheFile' = data2
           /\ IF Len(all_docs) = 0
              THEN \* np.vstack([]) raises ValueError
                   /\ lastBuild' = [rec EXCEPT !.status = "empty_error"]
                   /\ UNCHANGED <<indexFile, bpc, pending>>
              ELSE /\ lastBuild' = rec
                   /\ indexFile' = [exists |-> TRUE, build |-> builds + 1, vecs |-> embs]
                   /\ pending' = [i \in 1..Len(all_docs) |-> all_docs[i].doc_id]
                   /\ bpc' = "wrote_index"
    /\ UNCHANGED <<docFile, metadata, now, idMapFile, index, id_map, lpc,
                   envOps, loaded, torn, lastSearch, lastReconcile,
                   candidates, lastRank, pipeline, lastRequest, loadCall,
                   explainCall, managers, setDone, embedder, loadTag>>

\* variant: build_index returns without writing the id-map
BuildEndNoIdMap ==
    /\ Quiet
    /\ bpc = "wrote_index"
    /\ bpc' = "idle"
    /\ pending' = <<>>
    /\ torn' = FALSE
    /\ lastBuild' = IF lastBuild.status = "running"
                    THEN [lastBuild EXCEPT !.status = "ok"] ELSE lastBuild
    /\ UNCHANGED <<docFile, metadata, cacheData, cacheFile, now, indexFile,
                   idMapFile, index, id_map, lpc, builds, envOps, loaded,
                   lastSearch, lastReconcile, candidates, lastRank,
                   pipeline, lastRequest, loadCall, explainCall, managers,
                   setDone, embedder, loadTag>>

\* lines 111-118: the id-map written
BuildEnd ==
    /\ Quiet
    /\ bpc = "wrote_index"
    /\ idMapFile' = [exists |-> TRUE, build |-> builds, map |-> IdMapOf(pending)]
    /\ bpc' = "idle"
    /\ pending' = <<>>
    /\ torn' = FALSE
    /\ lastBuild' = IF lastBuild.status = "running"
                    THEN [lastBuild EXCEPT !.status = "ok"] ELSE lastBuild
    /\ UNCHANGED <<docFile, metadata, cacheData, cacheFile, now, indexFile,
                   index, id_map, lpc, builds, envOps, loaded, lastSearch,
                   lastReconcile, candidates, lastRank, pipeline,
                   lastRequest, loadCall, explainCall, managers, setDone,
                   embedder, loadTag>>

\* ------------------------------------------------------------------ load_index
\* lines 124-127: the index file read into self.index; RuntimeError when there
\* is no index file
LoadBegin ==
    /\ Quiet
    /\ lpc = "idle"
    /\ IF indexFile.exists
       THEN /\ index' = indexFile
            /\ loaded' = [loaded EXCEPT !.index = TRUE]
            /\ lpc' = "read_index"
            /\ lastSearch' = NoSearch
            /\ loadTag' = IndexTagged(loadTag)
       ELSE UNCHANGED <<index, loaded, lpc, lastSearch, loadTag>>
    /\ UNCHANGED <<docFile, metadata, cacheData, cacheFile, now, indexFile,
                   idMapFile, id_map, bpc, pending, builds, envOps, torn,
                   lastBuild, lastReconcile, candidates, lastRank, pipeline,
                   lastRequest, loadCall, explainCall, managers, setDone,
                   embedder>>

\* lines 129-132: the id-map file read into self.id_map; open() raises when
\* there is no id-map file and self.id_map stays as it was
LoadEnd ==
    /\ Quiet
    /\ lpc = "read_index"
    /\ lpc' = "idle"
    /\ IF idMapFile.exists
       THEN /\ id_map' = idMapFile
            /\ loaded' = [loaded EXCEPT !.id_map = TRUE]
            /\ loadTag' = PairTagged
       ELSE UNCHANGED <<id_map, loaded, loadTag>>
    /\ UNCHANGED <<docFile, metadata, cacheData, cacheFile, now, indexFile,
                   idMapFile, index, bpc, pending, builds, envOps, torn,
                   lastBuild, lastSearch, lastReconcile, candidates,
                   lastRank, pipeline, lastRequest, loadCall, explainCall,
                   managers, setDone, embedder>>

\* ---------------------------------------------------------------------- search
\* score of row pos (0-based) of the index against the query vector
ScoreOf(vecs, qvec, pos) == InnerProduct(vecs[pos + 1], qvec)

\* faiss IndexFlatIP.search(qvec, k): the k best positions, best first; when the
\* index holds fewer than k rows the tail is padded with position -1.  The
\* order among rows of equal score is the library's choice.
NNSearch(vecs, qvec, k) ==
    LET n == Len(vecs)
        m == IF k < n THEN k ELSE n
    IN  {ind \in [1..k -> -1..(n - 1)] :
            /\ \A j \in 1..m : ind[j] >= 0
            /\ \A j \in (m + 1)..k : ind[j] = -1
            /\ \A i, j \in 1..m : i # j => ind[i] # ind[j]
            /\ \A j \in 1..(m - 1) :
                  ScoreOf(vecs, qvec, ind[j]) >= ScoreOf(vecs, qvec, ind[j + 1])
            /\ \A p \in 0..(n - 1) :
                  (\A j \in 1..m : ind[j] # p)
                      => ScoreOf(vecs, qvec, p) <= ScoreOf(vecs, qvec, ind[m])}

\* the score faiss reports with a padded position
PadScore == -1

\* self.metadata[doc_id] succeeds
HasMeta(md, d) == \E i \in 1..Len(md) : md[i].doc_id = d

MetaOf(md, d) == md[CHOOSE i \in 1..Len(md) : md[i].doc_id = d]

\* both lookups of the loop body succeed for position idx:
\* self.id_map[str(idx)] and self.metadata[doc_id]
Resolves(idm, md, idx) ==
    /\ ToString(idx) \in DOMAIN idm
    /\ HasMeta(md, idm[ToString(idx)])

\* the candidate the loop body appends for position idx
Candidate(idm, md, vecs, qvec, idx) ==
    [doc_id |-> idm[ToString(idx)],
     score |-> IF idx < 0 THEN PadScore ELSE ScoreOf(vecs, qvec, idx),
     path |-> MetaOf(md, idm[ToString(idx)]).path]

\* variant: a position that does not resolve is passed over
SearchLoopSkip(idm, md, vecs, qvec, ind) ==
    LET good == SelectSeq(ind, LAMBDA x : Resolves(idm, md, x))
    IN  [status |-> "ok",
         results |-> [j \in 1..Len(good) |->
                         Candidate(idm, md, vecs, qvec, good[j])]]

\* lines 148-159: the loop over the returned positions.  A failed lookup
\* raises KeyError out of search, whatever was appended before it.
SearchLoop(idm, md, vecs, qvec, ind) ==
    IF \A j \in 1..Len(ind) : Resolves(idm, md, ind[j])
    THEN [status |-> "ok",
          results |-> [j \in 1..Len(ind) |-> Candidate(idm, md, vecs, qvec, ind[j])]]
    ELSE [status |-> "key_error", results |-> <<>>]

\* variant: "and" in place of "or"
NotLoadedBoth(ix, idm) == ~ix.exists /\ ~idm.exists

\* lines 138-139: "if self.index is None or self.id_map is None"
NotLoaded(ix, idm) == ~ix.exists \/ ~idm.exists

\* search(query, top_k) as a whole
Search(q, k) ==
    /\ Quiet
    /\ lpc = "idle"
    /\ IF NotLoaded(index, id_map)
       THEN lastSearch' = [status |-> "not_ready", top_k |-> k,
                           indices |-> <<>>, results |-> <<>>,
                           embedded |-> FALSE]
       ELSE \E ind \in NNSearch(index.vecs, embed_query(q), k) :
               LET out == SearchLoop(id_map.map, metadata, index.vecs,
                                     embed_query(q), ind)
               IN  lastSearch' = [status |-> out.status, top_k |-> k,
                                  indices |-> ind, results |-> out.results,
                                  embedded |-> TRUE]
    /\ UNCHANGED <<docFile, metadata, cacheData, cacheFile, now, indexFile,
                   idMapFile, index, id_map, bpc, pending, lpc, builds,
                   envOps, loaded, torn, lastBuild, lastReconcile,
                   candidates, lastRank, pipeline, lastRequest, loadCall,
                   explainCall, managers, setDone, embedder, loadTag>>

\* the search call returns and its record is dropped
SearchReturn ==
    /\ lastSearch # NoSearch
    /\ lastSearch' = NoSearch
    /\ UNCHANGED <<docFile, metadata, cacheData, cacheFile, now, indexFile,
                   idMapFile, index, id_map, bpc, pending, lpc, builds,
                   envOps, loaded, torn, lastBuild, lastReconcile,
                   candidates, lastRank, pipeline, lastRequest, loadCall,
                   explainCall, managers, setDone, embedder, loadTag>>

Next ==
    \/ Tick
    \/ \E d \in DocIds, t \in Texts \cup {NoText} : EditDoc(d, t)
    \/ Restart
    \/ BuildReadError
    \/ BuildEmbedError
    \/ BuildBegin
    \/ BuildEnd
    \/ LoadBegin
    \/ LoadEnd
    \/ \E q \in Queries, k \in TopKs : Search(q, k)
    \/ SearchReturn

Spec == Init /\ [][Next]_vars

\* the indexing side alone: corpus edits, restarts and builds
NextBuild ==
    \/ Tick
    \/ \E d \in DocIds, t \in Texts \cup {NoText} : EditDoc(d, t)
    \/ Restart
    \/ BuildReadError
    \/ BuildEmbedError
    \/ BuildBegin
    \/ BuildEnd

SpecBuild == Init /\ [][NextBuild]_vars

\* the serving side: builds, loads and searches, the clock standing still
NextServe ==
    \/ \E d \in DocIds, t \in Texts \cup {NoText} : EditDoc(d, t)
    \/ Restart
    \/ BuildBegin
    \/ BuildEnd
    \/ LoadBegin
    \/ LoadEnd
    \/ \E q \in Queries, k \in TopKs : Search(q, k)
    \/ SearchReturn

SpecServe == Init /\ [][NextServe]_vars

\* ------------------------------------------------------------ cache manager
\* the metas a caller can hand to bulk_get_changed: one per document, with
\* the hash of any text
MetaChoices ==
    {[doc_id |-> d, path |-> PathOf(d), hash |-> compute_sha256(t)] :
        d \in DocIds, t \in Texts}

\* lists of metas, doc_id unique within a list, in any order
MetaLists ==
    {ms \in UNION {[1..n -> MetaChoices] : n \in 0..NumDocs} :
        \A i, j \in 1..Len(ms) : i # j => ms[i].doc_id # ms[j].doc_id}

\* result = {}
EmptyResult == [d \in {} |-> NoEntry]

RECURSIVE BulkFrom(_, _, _, _)
\* bulk_get_changed, the loop from meta i on: result[doc_id] is the cached
\* entry when it is truthy and its hash is the meta's, None otherwise
BulkFrom(data, metas, i, result) ==
    IF i > Len(metas) THEN result
    ELSE LET doc_id == metas[i].doc_id
             cached == CacheGet(data, doc_id)
             value == IF Truthy(cached) /\ cached.hash = metas[i].hash
                      THEN cached
                      ELSE NoEntry
         IN  BulkFrom(data, metas, i + 1, (doc_id :> value) @@ result)

\* variant: the entry is returned whenever there is one, whatever its hash
bulk_get_changed_by_id(data, metas) ==
    [d \in {metas[i].doc_id : i \in 1..Len(metas)} |-> CacheGet(data, d)]

\* CacheManager.bulk_get_changed(metas)
bulk_get_changed(data, metas) == BulkFrom(data, metas, 1, EmptyResult)

\* CacheManager.set(doc_id, embedding, hash_str): entry written, file saved
set(d, emb, h) ==
    /\ Quiet
    /\ cacheData' = CacheSet(cacheData, d, emb, h, now)
    /\ cacheFile' = cacheData'
    /\ UNCHANGED <<docFile, metadata, now, indexFile, idMapFile, index,
                   id_map, bpc, pending, lpc, builds, envOps, loaded, torn,
                   lastBuild, lastSearch, lastReconcile, candidates,
                   lastRank, pipeline, lastRequest, loadCall, explainCall,
                   managers, setDone, embedder, loadTag>>

\* CacheManager.clear(): every entry dropped, the empty cache saved
clear ==
    /\ Quiet
    /\ cacheData # EmptyCache
    /\ cacheData' = EmptyCache
    /\ cacheFile' = cacheData'
    /\ UNCHANGED <<docFile, metadata, now, indexFile, idMapFile, index,
                   id_map, bpc, pending, lpc, builds, envOps, loaded, torn,
                   lastBuild, lastSearch, lastReconcile, candidates,
                   lastRank, pipeline, lastRequest, loadCall, explainCall,
                   managers, setDone, embedder, loadTag>>

\* a call of bulk_get_changed(metas) as a whole
Reconcile(metas) ==
    /\ Quiet
    /\ lastReconcile' = [status |-> "done", metas |-> metas,
                         before |-> cacheData, fileBefore |-> cacheFile,
                         result |-> bulk_get_changed(cacheData, metas)]
    /\ UNCHANGED <<docFile, metadata, cacheData, cacheFile, now, indexFile,
                   idMapFile, index, id_map, bpc, pending, lpc, builds,
                   envOps, loaded, torn, lastBuild, lastSearch, candidates,
                   lastRank, pipeline, lastRequest, loadCall, explainCall,
                   managers, setDone, embedder, loadTag>>

\* the bulk_get_changed call returns and its record is dropped
ReconcileReturn ==
    /\ lastReconcile # NoReconcile
    /\ lastReconcile' = NoReconcile
    /\ UNCHANGED <<docFile, metadata, cacheData, cacheFile, now, indexFile,
                   idMapFile, index, id_map, bpc, pending, lpc, builds,
                   envOps, loaded, torn, lastBuild, lastSearch, candidates,
                   lastRank, pipeline, lastRequest, loadCall, explainCall,
                   managers, setDone, embedder, loadTag>>

\* a CacheManager on its own: entries set and cleared as time passes, and
\* lists of metas reconciled against it
NextCache ==
    \/ Tick
    \/ \E d \in DocIds, t \in Texts : set(d, Encode(t), compute_sha256(t))
    \/ clear
    \/ \E metas \in MetaLists : Reconcile(metas)
    \/ ReconcileReturn

SpecCache == Init /\ [][NextCache]_vars

\* ------------------------------------------------------------------- ranker
\* similarity scores, as integers in their order
Scores == 0..MaxScore

\* top_k values handed to rerank
RankTopKs == (0 - 1)..(MaxCand + 1)

\* a result as search builds it: {"doc_id", "score", "path"}
Candidates ==
    {[doc_id |-> d, score |-> sc, path |-> PathOf(d)] :
        d \in DocIds, sc \in Scores}

CandidateLists == UNION {[1..n -> Candidates] : n \in 0..MaxCand}

\* x put into a list sorted by descending score, behind every element whose
\* score is not below its own
Insert(acc, x) ==
    LET k == Cardinality({i \in 1..Len(acc) : acc[i].score >= x.score})
    IN  SubSeq(acc, 1, k) \o <<x>> \o SubSeq(acc, k + 1, Len(acc))

RECURSIVE SortedFrom(_, _, _)
\* sorted(results, key=score, reverse=True), the elements from position i on
\* put into acc in input order: a new list, equal scores keeping their input
\* order
SortedFrom(results, i, acc) ==
    IF i > Len(results) THEN acc
    ELSE SortedFrom(results, i + 1, Insert(acc, results[i]))

\* variant: an ascending stable sort read backwards, equal scores coming out
\* in reverse input order
sorted_then_reversed(results) ==
    SortedFrom([i \in 1..Len(results) |-> results[Len(results) + 1 - i]],
               1, <<>>)

\* sorted(results, key=lambda x: x["score"], reverse=True)
sorted(results) == SortedFrom(results, 1, <<>>)

\* the Python slice ranked[:k]
Slice(ranked, k) ==
    IF k >= 0
    THEN SubSeq(ranked, 1, IF k < Len(ranked) THEN k ELSE Len(ranked))
    ELSE SubSeq(ranked, 1, IF Len(ranked) + k > 0 THEN Len(ranked) + k ELSE 0)

\* variant: truncation without the sort
rerank_unsorted(results, top_k) == Slice(results, top_k)

\* Ranker.rerank(results, top_k)
rerank(results, top_k) == Slice(sorted(results), top_k)

\* a call of rerank(candidates, top_k) as a whole; the caller's list is left
\* as it is, sorted() working on a copy; "again" is what a second call, on
\* the returned list, returns
Rerank(k) ==
    /\ Quiet
    /\ lastRank' = [status |-> "done", top_k |-> k, given |-> candidates,
                    out |-> rerank(candidates, k),
                    again |-> rerank(rerank(candidates, k), k)]
    /\ UNCHANGED <<docFile, metadata, cacheData, cacheFile, now, indexFile,
                   idMapFile, index, id_map, bpc, pending, lpc, builds,
                   envOps, loaded, torn, lastBuild, lastSearch,
                   lastReconcile, candidates, pipeline, lastRequest,
                   loadCall, explainCall, managers, setDone, embedder,
                   loadTag>>

\* the rerank call returns and its record is dropped
RerankReturn ==
    /\ lastRank # NoRank
    /\ lastRank' = NoRank
    /\ UNCHANGED <<docFile, metadata, cacheData, cacheFile, now, indexFile,
                   idMapFile, index, id_map, bpc, pending, lpc, builds,
                   envOps, loaded, torn, lastBuild, lastSearch,
                   lastReconcile, candidates, pipeline, lastRequest,
                   loadCall, explainCall, managers, setDone, embedder,
                   loadTag>>

\* any candidate list in the caller's hands
InitRank ==
    /\ EngineInit
    /\ lastReconcile = NoReconcile
    /\ candidates \in CandidateLists
    /\ lastRank = NoRank
    /\ loadCall = NoLoad
    /\ explainCall = NoExplain
    /\ managers = NoManagers
    /\ setDone = <<>>
    /\ embedder = NoEmbedder
    /\ loadTag = NoTags

\* a Ranker on its own
NextRank ==
    \/ \E k \in RankTopKs : Rerank(k)
    \/ RerankReturn

SpecRank == InitRank /\ [][NextRank]_vars

\* ------------------------------------------------------- query pipeline, api
\* scores are held in units finer than the fourth decimal: Grain units make
\* one step of it
Grain == 2

\* round(score, 4): the nearest multiple of Grain, a score half way between
\* two going to the even one
Round4(x) ==
    LET quo == x \div Grain
        rem == x - quo * Grain
    IN  IF 2 * rem < Grain THEN quo * Grain
        ELSE IF 2 * rem > Grain THEN (quo + 1) * Grain
        ELSE IF quo % 2 = 0 THEN quo * Grain
        ELSE (quo + 1) * Grain

\* the text "" the handler falls back to
EmptyText == 0

\* text[:230].replace("\n", " ")
Snippet(t) == "head of text " \o ToString(t)

\* snippet = "[File not found]"
NotFoundSnippet == "[File not found]"

\* the document file a path names
FileAt(files, path) == files[CHOOSE d \in DocIds : PathOf(d) = path]

\* open(path) raises something other than FileNotFoundError: the file is
\* there and cannot be read
ReadRaises(files, denied, item) ==
    /\ FileAt(files, item.path) # NoText
    /\ item.doc_id \in denied

\* lines 88-93: the result built for a ranked item whose file open did not
\* raise, or raised FileNotFoundError
FinalResult(files, item) ==
    [doc_id |-> item.doc_id,
     score |-> Round4(item.score),
     path |-> item.path,
     snippet |-> IF FileAt(files, item.path) = NoText
                 THEN NotFoundSnippet
                 ELSE Snippet(FileAt(files, item.path))]

\* variant: an item whose file is not found is left out of the results
AttachSnippetsDropping(files, ranked) ==
    LET kept == SelectSeq(ranked,
                          LAMBDA item : FileAt(files, item.path) # NoText)
    IN  [i \in 1..Len(kept) |-> FinalResult(files, kept[i])]

\* lines 76-93: the snippet loop, one result per ranked item, in order
AttachSnippets(files, ranked) ==
    [i \in 1..Len(ranked) |-> FinalResult(files, ranked[i])]

\* QueryPipeline.query(query, top_k) on an engine (ix, idm, md), faiss having
\* answered with the positions ind
query(ix, idm, md, files, denied, q, k, ind) ==
    IF NotLoaded(ix, idm)
    THEN [status |-> "not_ready", ranked |-> <<>>, results |-> <<>>]
    ELSE LET found == SearchLoop(idm.map, md, ix.vecs, embed_query(q), ind)
             ranked == rerank(found.results, k)
         IN  IF found.status # "ok"
             THEN [status |-> "key_error", ranked |-> <<>>, results |-> <<>>]
             ELSE IF \E i \in 1..Len(ranked) :
                        ReadRaises(files, denied, ranked[i])
             THEN [status |-> "read_error", ranked |-> ranked,
                   results |-> <<>>]
             ELSE [status |-> "ok", ranked |-> ranked,
                   results |-> AttachSnippets(files, ranked)]

\* a request's query string: pad whitespace characters around a text, text 0
\* standing for no other character at all.  The strings sent: "", " ", a
\* bare query and a query with whitespace around it
ReqQueries ==
    {[pad |-> 0, text |-> 0], [pad |-> 1, text |-> 0],
     [pad |-> 0, text |-> 1], [pad |-> 1, text |-> MaxText]}

\* the string ""
EmptyQuery == [pad |-> 0, text |-> 0]

\* req.query.strip()
strip(q) == [pad |-> 0, text |-> q.text]

\* variant: only the empty string is turned away
BlankIfEmpty(q) == q = EmptyQuery

\* api.search, line 64: not req.query or req.query.strip() == ""
Blank(q) == q = EmptyQuery \/ strip(q) = EmptyQuery

\* what explain_match is handed for a result: the query and the document text
Explained(q, doc_text) == [query |-> q, doc_text |-> doc_text]

\* api.search, lines 75-80: the document text, "" when open or read raises
\* anything at all
DocTextOrEmpty(files, denied, r) ==
    IF FileAt(files, r.path) = NoText \/ r.doc_id \in denied
    THEN EmptyText
    ELSE FileAt(files, r.path)

\* api.search, lines 73-88: one enriched item per result of the pipeline
Enrich(files, denied, q, results) ==
    [i \in 1..Len(results) |->
        [doc_id |-> results[i].doc_id,
         score |-> results[i].score,
         preview |-> results[i].snippet,
         explanation |->
             Explained(q, DocTextOrEmpty(files, denied, results[i]))]]

\* the sets of documents whose files cannot be read while a request runs
Denials == SUBSET DocIds

\* the requests sent: every query with every top_k and every denial, the
\* queries without a text with the first top_k and all files readable
Requests ==
    {r \in [query : ReqQueries, top_k : TopKs, denied : Denials] :
        r.query.text = 0 => (r.top_k = 1 /\ r.denied = {})}

\* QueryPipeline.__init__ can succeed: load_index finds both files
CanConstruct == indexFile.exists /\ idMapFile.exists

\* POST /search as a whole, the files in denied being unreadable while it
\* runs.  A blank query is answered 400.  Otherwise get_pipeline constructs
\* the QueryPipeline when there is none (SearchEngine(), load_index(), the
\* two file reads of load_index taken together here), the pipeline is
\* queried, and each result is explained; an exception on the way is
\* answered 500.  The embedding is taken of the query's text.
Handle(q, k, denied) ==
    /\ Quiet
    /\ lpc = "idle"
    /\ IF Blank(q)
       THEN /\ lastRequest' = [NoRequest EXCEPT !.status = 400, !.query = q,
                                                !.top_k = k,
                                                !.denied = denied]
            /\ UNCHANGED <<pipeline, metadata, cacheData, index, id_map,
                           loaded, loadTag>>
       ELSE IF ~pipeline /\ ~CanConstruct
       THEN /\ lastRequest' = [NoRequest EXCEPT !.status = 500, !.query = q,
                                                !.top_k = k,
                                                !.denied = denied]
            /\ UNCHANGED <<pipeline, metadata, cacheData, index, id_map,
                           loaded, loadTag>>
       ELSE LET ix == IF pipeline THEN index ELSE indexFile
                idm == IF pipeline THEN id_map ELSE idMapFile
                md == IF pipeline THEN metadata ELSE MetadataFile
            IN  \E ind \in NNSearch(ix.vecs, embed_query(q.text), k) :
                   LET out == query(ix, idm, md, docFile, denied, q.text, k,
                                    ind)
                   IN  /\ pipeline' = TRUE
                       /\ metadata' = md
                       /\ cacheData' = IF pipeline THEN cacheData
                                       ELSE cacheFile
                       /\ index' = ix
                       /\ id_map' = idm
                       /\ loaded' = IF pipeline THEN loaded
                                    ELSE [index |-> TRUE, id_map |-> TRUE]
                       /\ loadTag' = IF pipeline THEN loadTag
                                     ELSE PairTagged
                       /\ lastRequest' =
                             [status |-> IF out.status = "ok" THEN 200
                                         ELSE 500,
                              query |-> q, top_k |-> k, denied |-> denied,
                              constructed |-> ~pipeline, queried |-> TRUE,
                              out |-> out,
                              results |-> Enrich(docFile, denied, q.text,
                                                 out.results)]
    /\ UNCHANGED <<docFile, cacheFile, now, indexFile, idMapFile, bpc,
                   pending, lpc, builds, envOps, torn, lastBuild,
                   lastSearch, lastReconcile, candidates, lastRank,
                   loadCall, explainCall, managers, setDone, embedder>>

\* the response is sent and the request's record is dropped
HandleReturn ==
    /\ lastRequest # NoRequest
    /\ lastRequest' = NoRequest
    /\ UNCHANGED <<docFile, metadata, cacheData, cacheFile, now, indexFile,
                   idMapFile, index, id_map, bpc, pending, lpc, builds,
                   envOps, loaded, torn, lastBuild, lastSearch,
                   lastReconcile, candidates, lastRank, pipeline, loadCall,
                   explainCall, managers, setDone, embedder, loadTag>>

\* the API server, with documents removed from the corpus and the index
\* rebuilt beside it
NextApi ==
    \/ \E d \in DocIds : EditDoc(d, NoText)
    \/ Restart
    \/ BuildBegin
    \/ BuildEnd
    \/ \E r \in Requests : Handle(r.query, r.top_k, r.denied)
    \/ HandleReturn

\* the server started over a corpus of two documents, nothing built
InitApi ==
    /\ EngineInitOver(CorpusOf(2))
    /\ lastReconcile = NoReconcile
    /\ candidates = <<>>
    /\ lastRank = NoRank
    /\ loadCall = NoLoad
    /\ explainCall = NoExplain
    /\ managers = NoManagers
    /\ setDone = <<>>
    /\ embedder = NoEmbedder
    /\ loadTag = NoTags

SpecApi == InitApi /\ [][NextApi]_vars

\* ------------------------------------------------- cache manager, loading
\* the caches save can have written: per document no entry, or the entry of
\* a text written at some time
SavedCaches ==
    [DocIds -> {NoEntry} \cup
               {[present |-> TRUE, doc_id |-> "", embedding |-> Encode(t),
                 hash |-> compute_sha256(t), updated_at |-> at] :
                   t \in Texts, at \in 0..MaxTime}]

\* a saved cache with each entry under its own doc_id
Keyed(m) ==
    [d \in DocIds |-> IF m[d].present THEN [m[d] EXCEPT !.doc_id = d]
                      ELSE NoEntry]

\* what a CacheManager can find at its path: nothing; bytes that are not
\* UTF-8; text that is not JSON; JSON that is not an object (a list, a
\* number, a string, null); an object whose values are not entries; or an
\* object that save wrote
PersistedFiles ==
    {[kind |-> k, map |-> EmptyCache] :
        k \in {"missing", "not_utf8", "not_json", "json_not_object",
               "json_object_of_others"}}
    \cup {[kind |-> "json_object", map |-> Keyed(m)] : m \in SavedCaches}

\* CacheManager.__init__ and _load: self._data after the constructor, or the
\* exception leaving it.  Only json.JSONDecodeError is caught: decoding the
\* bytes raises UnicodeDecodeError out of the constructor, and JSON of any
\* type is taken as it is
Load(file) ==
    CASE file.kind = "missing" ->
            [status |-> "ok", data_kind |-> "dict", data |-> EmptyCache]
      [] file.kind = "not_json" ->
            [status |-> "ok", data_kind |-> "dict", data |-> EmptyCache]
      [] file.kind = "not_utf8" ->
            [status |-> "raised", data_kind |-> "none", data |-> EmptyCache]
      [] file.kind = "json_not_object" ->
            [status |-> "ok", data_kind |-> "not_dict", data |-> EmptyCache]
      [] file.kind = "json_object_of_others" ->
            [status |-> "ok", data_kind |-> "dict_of_others",
             data |-> EmptyCache]
      [] file.kind = "json_object" ->
            [status |-> "ok", data_kind |-> "dict", data |-> file.map]

\* CacheManager.get(doc_id) on the loaded _data: a dict answers with the
\* entry or None; a dict of other values answers with such a value; a list,
\* number, string or None has no get and AttributeError is raised
GetLoaded(call, d) ==
    CASE call.data_kind = "dict" ->
            [status |-> IF call.data[d].present THEN "entry" ELSE "absent",
             entry |-> call.data[d]]
      [] call.data_kind = "dict_of_others" ->
            [status |-> "not_an_entry", entry |-> NoEntry]
      [] OTHER ->
            [status |-> "raised", entry |-> NoEntry]

\* CacheManager() is constructed on the file
Construct ==
    /\ loadCall.status = "none"
    /\ LET out == Load(loadCall.file)
       IN  loadCall' = [loadCall EXCEPT !.status = out.status,
                                        !.data_kind = out.data_kind,
                                        !.data = out.data]
    /\ UNCHANGED <<docFile, metadata, cacheData, cacheFile, now, indexFile,
                   idMapFile, index, id_map, bpc, pending, lpc, builds,
                   envOps, loaded, torn, lastBuild, lastSearch,
                   lastReconcile, candidates, lastRank, pipeline,
                   lastRequest, explainCall, managers, setDone, embedder,
                   loadTag>>

\* the first get(doc_id) on the constructed CacheManager
GetAfterLoad(d) ==
    /\ loadCall.status = "ok"
    /\ loadCall.got.status = "none"
    /\ loadCall' = [loadCall EXCEPT !.got = GetLoaded(loadCall, d)]
    /\ UNCHANGED <<docFile, metadata, cacheData, cacheFile, now, indexFile,
                   idMapFile, index, id_map, bpc, pending, lpc, builds,
                   envOps, loaded, torn, lastBuild, lastSearch,
                   lastReconcile, candidates, lastRank, pipeline,
                   lastRequest, explainCall, managers, setDone, embedder,
                   loadTag>>

\* any file at the cache path, no CacheManager constructed on it yet
InitLoad ==
    /\ EngineInit
    /\ lastReconcile = NoReconcile
    /\ candidates = <<>>
    /\ lastRank = NoRank
    /\ loadCall \in {[NoLoad EXCEPT !.file = f] : f \in PersistedFiles}
    /\ explainCall = NoExplain
    /\ managers = NoManagers
    /\ setDone = <<>>
    /\ embedder = NoEmbedder
    /\ loadTag = NoTags

\* a CacheManager constructed on a file and asked once
NextLoad ==
    \/ Construct
    \/ \E d \in DocIds : GetAfterLoad(d)

SpecLoad == InitLoad /\ [][NextLoad]_vars

\* ------------------------------------------- several managers on one file
\* the file at the cache path as _load meets it: absent until a first save,
\* then the object the last save wrote
FileOf(saved, anySave) ==
    [kind |-> IF anySave THEN "json_object" ELSE "missing", map |-> saved]

\* variant: save keeps the entries of the file that the instance lacks
save_merging(file, data) ==
    [d \in DocIds |-> IF data[d].present THEN data[d] ELSE file[d]]

\* CacheManager.save: open(path, "w") empties the file and json.dump writes
\* the whole of self._data into it
save(file, data) == [d \in DocIds |-> data[d]]

\* CacheManager(): instance m is constructed and loads the file
ManagerOpen(m) ==
    /\ ~managers[m].open
    /\ managers' = [managers EXCEPT
                       ![m] = [open |-> TRUE,
                               data |-> Load(FileOf(cacheFile,
                                                    setDone # <<>>)).data]]
    /\ UNCHANGED <<cacheFile, setDone>>
    /\ UNCHANGED <<docFile, metadata, cacheData, now, indexFile, idMapFile,
                   index, id_map, bpc, pending, lpc, builds, envOps, loaded,
                   torn, lastBuild, lastSearch, lastReconcile, candidates,
                   lastRank, pipeline, lastRequest, loadCall, explainCall,
                   embedder, loadTag>>

\* instance m's set(doc_id, embedding, hash_str) for a document of the
\* corpus: the entry goes into m's own _data, and save writes the file
ManagerSet(m, d) ==
    /\ managers[m].open
    /\ Len(setDone) < MaxSets
    /\ docFile[d] # NoText
    /\ LET data == CacheSet(managers[m].data, d, Encode(docFile[d]),
                            compute_sha256(docFile[d]), now)
       IN /\ managers' = [managers EXCEPT ![m].data = data]
          /\ cacheFile' = save(cacheFile, data)
    /\ setDone' = Append(setDone, [by |-> m, doc_id |-> d])
    /\ UNCHANGED <<docFile, metadata, cacheData, now, indexFile, idMapFile,
                   index, id_map, bpc, pending, lpc, builds, envOps, loaded,
                   torn, lastBuild, lastSearch, lastReconcile, candidates,
                   lastRank, pipeline, lastRequest, loadCall, explainCall,
                   embedder, loadTag>>

\* every document of the corpus has a text, nothing is cached, and no
\* instance is open
InitManagers ==
    /\ EngineInitOver(CorpusOf(NumDocs))
    /\ lastReconcile = NoReconcile
    /\ candidates = <<>>
    /\ lastRank = NoRank
    /\ loadCall = NoLoad
    /\ explainCall = NoExplain
    /\ managers = NoManagers
    /\ setDone = <<>>
    /\ embedder = NoEmbedder
    /\ loadTag = NoTags

\* instances open and set in any order as time passes, nothing serializing
\* them
NextManagers ==
    \/ Tick
    \/ \E m \in Managers : ManagerOpen(m)
    \/ \E m \in Managers, d \in DocIds : ManagerSet(m, d)

SpecManagers == InitManagers /\ [][NextManagers]_vars

\* ================================================================== explainer
\* A text is a sequence of items: a positive number w is the word w written
\* in lower case, its negative is the same word written with capitals, and 0
\* is a run of characters that \w+ does not match (spaces, punctuation).
\* Words are numbered in alphabetical order, 1..MaxWord.
Words == 1..MaxWord

\* _STOPWORDS: the closed set of function words; here the alphabetically
\* first and last word of the vocabulary ("a" ... "you")
STOPWORDS == {1, MaxWord}

\* default top_n of keyword_overlap
TopN == 10

\* str.lower() on one item
lower(item) == IF item < 0 THEN 0 - item ELSE item

\* simple_tokenize(text): the \w+ matches of the lower-cased text
IsWord(item) == item # 0
simple_tokenize(text) ==
    IF text = <<>>
    THEN <<>>
    ELSE LET lowered == [i \in 1..Len(text) |-> lower(text[i])]
         IN SelectSeq(lowered, IsWord)

\* extract_keywords(text) with use_stopwords = True
NotStopword(t) == t \notin STOPWORDS
extract_keywords(text) == SelectSeq(simple_tokenize(text), NotStopword)

\* set(tokens)
TokenSet(tokens) == {tokens[i] : i \in 1..Len(tokens)}

\* the sort key of keyword_overlap: (-(x in d_set), x), compared as tuples
OverlapKey(x, d_set) == <<IF x \in d_set THEN 0 - 1 ELSE 0, x>>
KeyBefore(k1, k2) == k1[1] < k2[1] \/ (k1[1] = k2[1] /\ k1[2] < k2[2])

\* the overlap listed in descending key order
RECURSIVE sorted_overlap_descending(_, _)
sorted_overlap_descending(overlap, d_set) ==
    IF overlap = {}
    THEN <<>>
    ELSE LET first == CHOOSE x \in overlap :
                          \A y \in overlap \ {x} :
                              KeyBefore(OverlapKey(y, d_set), OverlapKey(x, d_set))
         IN <<first>> \o sorted_overlap_descending(overlap \ {first}, d_set)

\* sorted(overlap, key=...): the elements in ascending key order
RECURSIVE sorted_overlap(_, _)
sorted_overlap(overlap, d_set) ==
    IF overlap = {}
    THEN <<>>
    ELSE LET first == CHOOSE x \in overlap :
                          \A y \in overlap \ {x} :
                              KeyBefore(OverlapKey(x, d_set), OverlapKey(y, d_set))
         IN <<first>> \o sorted_overlap(overlap \ {first}, d_set)

\* the quotient len(overlap) / max(1, len(q_set)), kept as a fraction
Max(a, b) == IF a >= b THEN a ELSE b
Ratio(n, d) == [num |-> n, den |-> d]

\* keyword_overlap dividing by the number of query keywords, repeats counted
keyword_overlap_by_list(q, doc_text, top_n) ==
    LET q_keywords == extract_keywords(q)
    IN IF q_keywords = <<>>
       THEN [overlap_list |-> <<>>, overlap_ratio |-> Ratio(0, 1)]
       ELSE LET q_set == TokenSet(q_keywords)
                d_set == TokenSet(extract_keywords(doc_text))
                overlap == q_set \cap d_set
            IN [overlap_list |-> Slice(sorted_overlap(overlap, d_set), top_n),
                overlap_ratio |-> Ratio(Cardinality(overlap),
                                        Max(1, Len(q_keywords)))]

\* keyword_overlap(query, doc_text, top_n)
keyword_overlap(q, doc_text, top_n) ==
    LET q_keywords == extract_keywords(q)
    IN IF q_keywords = <<>>
       THEN [overlap_list |-> <<>>, overlap_ratio |-> Ratio(0, 1)]
       ELSE LET q_set == TokenSet(q_keywords)
                d_set == TokenSet(extract_keywords(doc_text))
                overlap == q_set \cap d_set
                overlap_list == sorted_overlap(overlap, d_set)
            IN [overlap_list |-> Slice(overlap_list, top_n),
                overlap_ratio |-> Ratio(Cardinality(overlap),
                                        Max(1, Cardinality(q_set)))]

\* Floats are fixed-point numbers: One stands for 1.0.
One == 10000

\* atanh(1/m) by its series 1/m + 1/(3 m^3) + 1/(5 m^5) + ..., on the
\* fixed-point grid; power is (1/m)^j, the series ends when it reaches zero
RECURSIVE AtanhInv(_, _, _)
AtanhInv(m, power, j) ==
    IF power = 0
    THEN 0
    ELSE power \div j + AtanhInv(m, power \div (m * m), j + 2)

\* math.log(k) for an integer k >= 1: log(k) = log(k-1) + 2 atanh(1/(2k-1))
RECURSIVE log(_)
log(k) ==
    IF k <= 1
    THEN 0
    ELSE log(k - 1) + 2 * AtanhInv(2 * k - 1, One \div (2 * k - 1), 1)

\* 1.0 / (1.0 + math.log(1 + n))
LengthNormOf(n) == (One * One) \div (One + log(1 + n))

\* doc_length_norm(doc_text)
doc_length_norm(doc_text) ==
    LET tokens == simple_tokenize(doc_text)
        n == Max(1, Len(tokens))
    IN LengthNormOf(n)

\* the words lo..hi, last first
Span(lo, hi) == [i \in 1..(hi - lo + 1) |-> hi - i + 1]
Spans == {Span(lo, hi) : lo \in Words, hi \in Words}

\* a span as it may be written: as it is; with punctuation, a capitalised
\* first word and that word repeated; or with every second word left out
Noisy(span) ==
    IF span = <<>>
    THEN <<0>>
    ELSE <<0, 0 - span[1], 0>> \o Tail(span) \o <<0, span[1]>>
Sparse(span) == [i \in 1..((Len(span) + 1) \div 2) |-> span[2 * i - 1]]
ExplainTexts ==
    {span : span \in Spans} \cup {Noisy(span) : span \in Spans}
        \cup {Sparse(span) : span \in Spans}

\* explain_match(query, doc_text), up to the rounding of its two floats
Explain ==
    /\ explainCall.status = "none"
    /\ LET ko == keyword_overlap(explainCall.query, explainCall.doc_text, TopN)
       IN explainCall' = [explainCall EXCEPT
                             !.status = "done",
                             !.overlap_list = ko.overlap_list,
                             !.overlap_ratio = ko.overlap_ratio,
                             !.length_norm =
                                 doc_length_norm(explainCall.doc_text)]
    /\ UNCHANGED <<docFile, metadata, cacheData, cacheFile, now, indexFile,
                   idMapFile, index, id_map, bpc, pending, lpc, builds,
                   envOps, loaded, torn, lastBuild, lastSearch,
                   lastReconcile, candidates, lastRank, pipeline,
                   lastRequest, loadCall, managers, setDone, embedder,
                   loadTag>>

\* The specification of the explainer: any pair of texts, explained once.
InitExplain ==
    /\ EngineInit
    /\ lastReconcile = NoReconcile
    /\ candidates = <<>>
    /\ lastRank = NoRank
    /\ loadCall = NoLoad
    /\ explainCall \in {[NoExplain EXCEPT !.query = q, !.doc_text = t] :
                           q \in ExplainTexts, t \in ExplainTexts}
    /\ managers = NoManagers
    /\ setDone = <<>>
    /\ embedder = NoEmbedder
    /\ loadTag = NoTags

NextExplain == Explain

SpecExplain == InitExplain /\ [][NextExplain]_vars

\* =========================================================== embedder loading
\* Embedder.__init__, statement by statement.  embedder.pc is the statement
\* the constructor stands at; tried and slept count the SentenceTransformer
\* calls by name and the time.sleep calls made so far.

\* what a SentenceTransformer(MODEL_NAME, ...) call can do: return a model,
\* raise TypeError, or raise another Exception
Outcomes == {"ok", "TypeError", "Exception"}

\* variant: a TypeError is handled like any other Exception
after_attempt_retrying(e, outcome) ==
    LET t == [e EXCEPT !.tried = e.tried + 1]
    IN CASE outcome = "ok" ->
               [t EXCEPT !.model = "by_name", !.pc = "after_loop"]
         [] OTHER ->
               IF e.attempt = e.retries
               THEN [t EXCEPT !.attempt = e.attempt + 1, !.pc = "loop",
                              !.type_error = (outcome = "TypeError")]
               ELSE [t EXCEPT !.pc = "sleep",
                              !.type_error = (outcome = "TypeError")]

\* the body of the for loop, lines 37-52, for one attempt: break on success
\* and on TypeError; on another Exception sleep unless the attempt was the
\* last one
after_attempt(e, outcome) ==
    LET t == [e EXCEPT !.tried = e.tried + 1]
    IN CASE outcome = "ok" ->
               [t EXCEPT !.model = "by_name", !.pc = "after_loop"]
         [] outcome = "TypeError" ->
               [t EXCEPT !.type_error = TRUE, !.pc = "after_loop"]
         [] OTHER ->
               IF e.attempt = e.retries
               THEN [t EXCEPT !.attempt = e.attempt + 1, !.pc = "loop"]
               ELSE [t EXCEPT !.pc = "sleep"]

\* line 39: one attempt to load the model by name
TryByName(outcome) ==
    /\ embedder.pc = "loop"
    /\ embedder.attempt <= embedder.retries
    /\ embedder' = after_attempt(embedder, outcome)
    /\ UNCHANGED <<docFile, metadata, cacheData, cacheFile, now, indexFile,
                   idMapFile, index, id_map, bpc, pending, lpc, builds,
                   envOps, loaded, torn, lastBuild, lastSearch, lastReconcile,
                   candidates, lastRank, pipeline, lastRequest, loadCall,
                   explainCall, managers, setDone, loadTag>>

\* line 52: time.sleep(retry_delay), then the next attempt
Sleep ==
    /\ embedder.pc = "sleep"
    /\ embedder' = [embedder EXCEPT !.slept = embedder.slept + 1,
                                    !.attempt = embedder.attempt + 1,
                                    !.pc = "loop"]
    /\ UNCHANGED <<docFile, metadata, cacheData, cacheFile, now, indexFile,
                   idMapFile, index, id_map, bpc, pending, lpc, builds,
                   envOps, loaded, torn, lastBuild, lastSearch, lastReconcile,
                   candidates, lastRank, pipeline, lastRequest, loadCall,
                   explainCall, managers, setDone, loadTag>>

\* lines 36, 53-55: range(1, retries + 1) is exhausted
LoopExhausted ==
    /\ embedder.pc = "loop"
    /\ embedder.attempt > embedder.retries
    /\ embedder' = [embedder EXCEPT !.pc = "after_loop"]
    /\ UNCHANGED <<docFile, metadata, cacheData, cacheFile, now, indexFile,
                   idMapFile, index, id_map, bpc, pending, lpc, builds,
                   envOps, loaded, torn, lastBuild, lastSearch, lastReconcile,
                   candidates, lastRank, pipeline, lastRequest, loadCall,
                   explainCall, managers, setDone, loadTag>>

\* line 58: with a model the constructor returns; lines 60-69: without one
\* the fallback starts, huggingface_hub is imported and the local folder
\* looked at
AfterLoop ==
    /\ embedder.pc = "after_loop"
    /\ embedder' =
          IF embedder.model # "None"
          THEN [embedder EXCEPT !.pc = "done"]
          ELSE IF ~embedder.hub
          THEN [embedder EXCEPT !.fallback = TRUE, !.pc = "raised",
                                !.raised = "RuntimeError"]
          ELSE IF embedder.local_dir
          THEN [embedder EXCEPT !.fallback = TRUE, !.pc = "load_local"]
          ELSE [embedder EXCEPT !.fallback = TRUE, !.pc = "download"]
    /\ UNCHANGED <<docFile, metadata, cacheData, cacheFile, now, indexFile,
                   idMapFile, index, id_map, bpc, pending, lpc, builds,
                   envOps, loaded, torn, lastBuild, lastSearch, lastReconcile,
                   candidates, lastRank, pipeline, lastRequest, loadCall,
                   explainCall, managers, setDone, loadTag>>

\* lines 71-79: snapshot_download returns or raises
Download(ok) ==
    /\ embedder.pc = "download"
    /\ embedder' =
          IF ok
          THEN [embedder EXCEPT !.local_dir = TRUE, !.pc = "load_local"]
          ELSE [embedder EXCEPT !.pc = "raised", !.raised = "RuntimeError"]
    /\ UNCHANGED <<docFile, metadata, cacheData, cacheFile, now, indexFile,
                   idMapFile, index, id_map, bpc, pending, lpc, builds,
                   envOps, loaded, torn, lastBuild, lastSearch, lastReconcile,
                   candidates, lastRank, pipeline, lastRequest, loadCall,
                   explainCall, managers, setDone, loadTag>>

\* lines 82-86: SentenceTransformer(LOCAL_MODEL_DIR) returns or raises
LoadLocal(ok) ==
    /\ embedder.pc = "load_local"
    /\ embedder' =
          IF ok
          THEN [embedder EXCEPT !.model = "local", !.pc = "done"]
          ELSE [embedder EXCEPT !.pc = "raised", !.raised = "RuntimeError"]
    /\ UNCHANGED <<docFile, metadata, cacheData, cacheFile, now, indexFile,
                   idMapFile, index, id_map, bpc, pending, lpc, builds,
                   envOps, loaded, torn, lastBuild, lastSearch, lastReconcile,
                   candidates, lastRank, pipeline, lastRequest, loadCall,
                   explainCall, managers, setDone, loadTag>>

\* Embedder(retries) is called: self.model = None, the loop starts at
\* attempt 1; huggingface_hub may or may not be installed and the local
\* model folder may or may not be complete
InitEmbedder ==
    /\ EngineInit
    /\ lastReconcile = NoReconcile
    /\ candidates = <<>>
    /\ lastRank = NoRank
    /\ loadCall = NoLoad
    /\ explainCall = NoExplain
    /\ managers = NoManagers
    /\ setDone = <<>>
    /\ embedder \in {[NoEmbedder EXCEPT !.pc = "loop", !.attempt = 1,
                                        !.retries = r, !.hub = h,
                                        !.local_dir = l] :
                        r \in 0..MaxRetries, h \in BOOLEAN, l \in BOOLEAN}
    /\ loadTag = NoTags

NextEmbedder ==
    \/ \E outcome \in Outcomes : TryByName(outcome)
    \/ Sleep
    \/ LoopExhausted
    \/ AfterLoop
    \/ \E ok \in BOOLEAN : Download(ok)
    \/ \E ok \in BOOLEAN : LoadLocal(ok)

\* every call the constructor makes returns or raises, so the constructor
\* goes on as long as it has a statement to execute
SpecEmbedder ==
    InitEmbedder /\ [][NextEmbedder]_vars /\ WF_vars(NextEmbedder)

\* ===================================================================== claims
\* position i (1-based) of the metadata the build ran over
DocAt(i) == metadata[i].doc_id

\* C1: after every successful build_index, every document of the metadata has
\* a cache entry whose stored hash is the document's metadata hash, and a
\* document whose metadata hash differed from the hash cached before the
\* build has a freshly computed embedding in the index.
C1_EditedNeverStale ==
    lastBuild.status = "ok" =>
        \A i \in 1..Len(metadata) :
            /\ cacheData[DocAt(i)].present
            /\ cacheData[DocAt(i)].hash = metadata[i].hash
            /\ lastBuild.before[DocAt(i)].hash # metadata[i].hash
                  => indexFile.vecs[i] = Encode(docFile[DocAt(i)])

\* C2: bulk_get_changed maps the doc_id of every meta of its list, and nothing
\* else, to the stored cache entry, unmodified, when an entry for that doc_id
\* is present and its stored hash equals the meta's hash, and to None when
\* the entry is absent or its hash differs; the cache, in memory and on
\* disk, is what it was before the call.
C2_ReconcileByHash ==
    lastReconcile.status = "done" =>
        LET metas == lastReconcile.metas
            data == lastReconcile.before
            result == lastReconcile.result
        IN  /\ DOMAIN result = {metas[i].doc_id : i \in 1..Len(metas)}
            /\ \A i \in 1..Len(metas) :
                  LET d == metas[i].doc_id
                      hit == data[d].present /\ data[d].hash = metas[i].hash
                  IN  /\ hit => result[d] = data[d] /\ result[d].present
                      /\ ~hit => result[d] = NoEntry
            /\ cacheData = data
            /\ cacheFile = lastReconcile.fileBefore

\* a call over a list with one meta whose hash is the stored one and one meta
\* whose entry is stored under another hash
C2_Witness ==
    /\ lastReconcile.status = "done"
    /\ \E i, j \in 1..Len(lastReconcile.metas) :
          LET mi == lastReconcile.metas[i]
              mj == lastReconcile.metas[j]
              data == lastReconcile.before
          IN  /\ data[mi.doc_id].present
              /\ data[mi.doc_id].hash = mi.hash
              /\ lastReconcile.result[mi.doc_id] = data[mi.doc_id]
              /\ data[mj.doc_id].present
              /\ data[mj.doc_id].hash # mj.hash
              /\ lastReconcile.result[mj.doc_id] = NoEntry

\* the positions whose metadata hash differs from the hash cached before the
\* latest build
ChangedBefore ==
    {i \in 1..Len(metadata) : lastBuild.before[DocAt(i)].hash # metadata[i].hash}

\* C3: from a cache fully populated by an earlier build, a build after one
\* document's hash changed sends exactly that document's text to the
\* provider, overwrites exactly its cache entry and leaves the others alone.
C3_OneEditOneEmbedding ==
    (/\ lastBuild.status = "ok"
     /\ \A i \in 1..Len(metadata) : lastBuild.before[DocAt(i)].present
     /\ Cardinality(ChangedBefore) = 1)
    => \A i \in ChangedBefore :
          /\ lastBuild.sent = <<docFile[DocAt(i)]>>
          /\ cacheData[DocAt(i)].hash = metadata[i].hash
          /\ cacheData[DocAt(i)].embedding = Encode(docFile[DocAt(i)])
          /\ \A d \in DocIds \ {DocAt(i)} : cacheData[d] = lastBuild.before[d]

\* C4: a build_index run right after a successful one, the metadata
\* unchanged, sends nothing to the provider and leaves the cache, in memory
\* and on disk, as the first run left it (ids, hashes, vectors, updated_at).
C4_SecondBuildIdle ==
    lastBuild.again =>
        /\ lastBuild.sent = <<>>
        /\ cacheData = lastBuild.before
        /\ cacheFile = lastBuild.before

\* a second build has completed at a later clock value than the entries' stamps
C4_Witness ==
    /\ lastBuild.again
    /\ lastBuild.status = "ok"
    /\ \E d \in DocIds : cacheData[d].present /\ cacheData[d].updated_at < now

\* C5: after every successful build_index over N metadata documents the index
\* file holds N vectors, the id-map file holds exactly the keys "0".."N-1",
\* key i names the i-th metadata document, and row i is that document's
\* vector: the cached one when the cache held the document, the freshly
\* computed one otherwise.
C5_IndexIdMapAligned ==
    lastBuild.status = "ok" =>
        LET N == Len(metadata) IN
        /\ indexFile.exists /\ idMapFile.exists
        /\ Len(indexFile.vecs) = N
        /\ DOMAIN idMapFile.map = {ToString(i) : i \in 0..(N - 1)}
        /\ \A i \in 0..(N - 1) :
              LET d == idMapFile.map[ToString(i)] IN
              /\ d = DocAt(i + 1)
              /\ HasMeta(metadata, d)
              /\ indexFile.vecs[i + 1] = cacheData[d].embedding
              /\ indexFile.vecs[i + 1] =
                    IF lastBuild.before[d].present
                    THEN lastBuild.before[d].embedding
                    ELSE Encode(docFile[d])

\* a successful build that mixed a cached vector and a computed one
C5_Witness ==
    /\ lastBuild.status = "ok"
    /\ \E i, j \in 1..Len(metadata) :
          /\ lastBuild.before[DocAt(i)].present
          /\ ~lastBuild.before[DocAt(j)].present
          /\ indexFile.vecs[i] # indexFile.vecs[j]

\* the two persisted files were written by one build_index call
FilesSameBuild ==
    /\ indexFile.build = idMapFile.build
    /\ Len(indexFile.vecs) = Cardinality(DOMAIN idMapFile.map)

\* C6 as stated, in what can be seen of it: whenever both files exist they
\* have equal size (one build wrote both), and so have an index and an id-map
\* that load_index loaded together.
C6_AlwaysSameBuild ==
    /\ (indexFile.exists /\ idMapFile.exists)
          => Len(indexFile.vecs) = Cardinality(DOMAIN idMapFile.map)
    /\ (lpc = "idle" /\ index.exists /\ id_map.exists)
          => Len(index.vecs) = Cardinality(DOMAIN id_map.map)

\* C6 amended: the two files come from the same build exactly when no
\* build_index stands, or was cut off, between its index-file write and its
\* id-map-file write; inside that window the index file is the newer one.
C6_SameBuildOutsideWindow ==
    /\ FilesSameBuild <=> ~(bpc = "wrote_index" \/ torn)
    /\ indexFile.build >= idMapFile.build

\* a load_index that ran inside the window of a rebuild over a changed corpus
\* holds an index of one build and an id-map of another, of different sizes
C6_Witness ==
    /\ lpc = "idle"
    /\ index.exists /\ id_map.exists
    /\ index.build # id_map.build
    /\ Len(index.vecs) # Cardinality(DOMAIN id_map.map)

\* the loaded pair is one build's, and every document it names has metadata
LoadedPairSound ==
    /\ index.exists /\ id_map.exists
    /\ index.build = id_map.build
    /\ Len(index.vecs) = Cardinality(DOMAIN id_map.map)
    /\ \A k \in DOMAIN id_map.map : HasMeta(metadata, id_map.map[k])

\* C7: with an index of N documents loaded, search returns, for every query
\* and every top_k >= 1 (top_k > N included), at most top_k candidates, each
\* with the doc_id the id-map gives and the path the metadata gives.
C7_AtMostTopK ==
    (lastSearch.status # "none" /\ LoadedPairSound) =>
        /\ lastSearch.status = "ok"
        /\ Len(lastSearch.results) <= lastSearch.top_k
        /\ \A j \in 1..Len(lastSearch.results) :
              LET r == lastSearch.results[j] IN
              /\ \E k \in DOMAIN id_map.map : r.doc_id = id_map.map[k]
              /\ r.path = MetaOf(metadata, r.doc_id).path

\* C8: search fails with the not-ready error, embedding nothing and
\* returning nothing, whenever load_index has not set both the index and the
\* id-map of this SearchEngine.
C8_NotLoadedFails ==
    (lastSearch.status # "none" /\ ~(loaded.index /\ loaded.id_map)) =>
        /\ lastSearch.status = "not_ready"
        /\ ~lastSearch.embedded
        /\ lastSearch.results = <<>>

\* search refused on an engine whose build_index has completed but whose
\* load_index has not run
C8_Witness ==
    /\ lastSearch.status = "not_ready"
    /\ lastBuild.status = "ok"
    /\ ~loaded.index /\ ~loaded.id_map

\* a returned position has no id-map entry, or its doc_id no metadata entry
Unresolved(idx) ==
    \/ ToString(idx) \notin DOMAIN id_map.map
    \/ \A i \in 1..Len(metadata) :
          metadata[i].doc_id # id_map.map[ToString(idx)]

\* C9: when the nearest-neighbour search returns a position without id-map
\* entry, or whose doc_id has no metadata entry, search raises and returns
\* nothing: the position is not skipped, no partial list comes back.
C9_MissingEntryFatal ==
    (/\ lastSearch.status \notin {"none", "not_ready"}
     /\ \E j \in 1..Len(lastSearch.indices) : Unresolved(lastSearch.indices[j]))
    => /\ lastSearch.status = "key_error"
       /\ lastSearch.results = <<>>

\* a search that raised on a real position (not padding) missing from the
\* id-map, after another position had resolved
C9_Witness ==
    /\ lastSearch.status = "key_error"
    /\ \E j \in 1..Len(lastSearch.indices) :
          /\ lastSearch.indices[j] >= 0
          /\ ToString(lastSearch.indices[j]) \notin DOMAIN id_map.map
    /\ \E j \in 1..Len(lastSearch.indices) : ~Unresolved(lastSearch.indices[j])

\* C10: for top_k >= 1, rerank returns min(top_k, len(candidates)) results;
\* they are candidates of the input, each input position used at most once
\* and the record unaltered; their scores never increase along the output;
\* every input position left out has a score no higher than the last
\* returned one; and the caller's list is what it was before the call.
C10_RerankTopSorted ==
    (lastRank.status = "done" /\ lastRank.top_k >= 1) =>
        LET given == lastRank.given
            out == lastRank.out
            n == Len(given)
            m == Len(out)
        IN  /\ m = (IF lastRank.top_k < n THEN lastRank.top_k ELSE n)
            /\ \E f \in [1..m -> 1..n] :
                  /\ \A i, j \in 1..m : i # j => f[i] # f[j]
                  /\ \A i \in 1..m : out[i] = given[f[i]]
                  /\ \A p \in (1..n) \ {f[i] : i \in 1..m} :
                        given[p].score <= out[m].score
            /\ \A i \in 1..(m - 1) : out[i].score >= out[i + 1].score
            /\ candidates = given

\* a call that has to reorder and to truncate: the input rises in score
\* somewhere and is longer than top_k
C10_Witness ==
    /\ lastRank.status = "done"
    /\ lastRank.top_k >= 1
    /\ lastRank.top_k < Len(lastRank.given)
    /\ Len(lastRank.out) = lastRank.top_k
    /\ \E i \in 1..(Len(lastRank.given) - 1) :
          lastRank.given[i].score < lastRank.given[i + 1].score
    /\ lastRank.out # SubSeq(lastRank.given, 1, lastRank.top_k)

\* rank of input position p under "score descending, input position
\* ascending": one more than the number of positions that come before it
StableRank(given, p) ==
    1 + Cardinality({q \in 1..Len(given) :
                        \/ given[q].score > given[p].score
                        \/ given[q].score = given[p].score /\ q < p})

\* C11: for top_k >= 1 the output of rerank is fixed by the input alone: its
\* i-th result is the candidate at the input position of rank i under
\* "score descending, then input position ascending", so candidates with
\* equal scores keep their input order; and rerank applied to its own output
\* gives that output again.
C11_StableAndIdempotent ==
    (lastRank.status = "done" /\ lastRank.top_k >= 1) =>
        LET given == lastRank.given
            out == lastRank.out
        IN  /\ \A p \in 1..Len(given) :
                  StableRank(given, p) <= Len(out) =>
                      out[StableRank(given, p)] = given[p]
            /\ \A i \in 1..Len(out) :
                  \E p \in 1..Len(given) : StableRank(given, p) = i
            /\ lastRank.again = out

\* a call over a list where two different candidates tie, a higher score
\* comes after them, and both tied candidates are returned
C11_Witness ==
    /\ lastRank.status = "done"
    /\ lastRank.top_k >= 1
    /\ \E p, q, r \in 1..Len(lastRank.given) :
          /\ p < q
          /\ q < r
          /\ lastRank.given[p].score = lastRank.given[q].score
          /\ lastRank.given[p] # lastRank.given[q]
          /\ lastRank.given[r].score > lastRank.given[q].score
          /\ StableRank(lastRank.given, q) <= Len(lastRank.out)

\* C12: when the pipeline's loaded index and id-map are one build of N
\* documents known to its metadata, 1 <= top_k <= N, and no document file
\* refuses to be read, QueryPipeline.query returns exactly top_k results:
\* result i is ranked item i of rerank with its score rounded and a snippet
\* attached, no document comes twice, and the rounded scores never increase.
C12_QueryReturnsTopK ==
    ( /\ lastRequest.queried
      /\ LoadedPairSound
      /\ lastRequest.denied = {}
      /\ lastRequest.top_k >= 1
      /\ lastRequest.top_k <= Len(index.vecs) ) =>
        LET out == lastRequest.out
            k == lastRequest.top_k
        IN  /\ out.status = "ok"
            /\ Len(out.ranked) = k
            /\ Len(out.results) = k
            /\ \A i \in 1..k :
                  /\ out.results[i].doc_id = out.ranked[i].doc_id
                  /\ out.results[i].path = out.ranked[i].path
                  /\ out.results[i].score = Round4(out.ranked[i].score)
            /\ \A i, j \in 1..k :
                  i # j => out.results[i].doc_id # out.results[j].doc_id
            /\ \A i \in 1..(k - 1) :
                  /\ out.ranked[i].score >= out.ranked[i + 1].score
                  /\ out.results[i].score >= out.results[i + 1].score

\* a query answered with two results or more, one of them with the
\* placeholder snippet and one with a snippet of its text
C12_Witness ==
    /\ lastRequest.queried
    /\ LoadedPairSound
    /\ lastRequest.denied = {}
    /\ lastRequest.top_k >= 2
    /\ lastRequest.top_k <= Len(index.vecs)
    /\ lastRequest.out.status = "ok"
    /\ \E i, j \in 1..Len(lastRequest.out.results) :
          /\ lastRequest.out.results[i].snippet = NotFoundSnippet
          /\ lastRequest.out.results[j].snippet # NotFoundSnippet

\* the file of ranked item r cannot be read while the request runs: it is
\* gone, or opening it raises
Unreadable(r) ==
    \/ FileAt(docFile, r.path) = NoText
    \/ r.doc_id \in lastRequest.denied

\* C13: a query over a sound loaded pair with 1 <= top_k <= N is answered,
\* whatever document files cannot be read: the pipeline and the handler give
\* one result per ranked candidate, with the placeholder snippet and the
\* empty explanation text for the documents that cannot be read and the
\* snippet and text of the file for the others.
C13_ReadFailureRecovered ==
    ( /\ lastRequest.queried
      /\ LoadedPairSound
      /\ lastRequest.top_k >= 1
      /\ lastRequest.top_k <= Len(index.vecs) ) =>
        LET out == lastRequest.out
            n == Len(out.ranked)
        IN  /\ lastRequest.status = 200
            /\ out.status = "ok"
            /\ Len(out.results) = n
            /\ Len(lastRequest.results) = n
            /\ \A i \in 1..n :
                  LET r == out.ranked[i]
                      text == FileAt(docFile, r.path)
                  IN  IF Unreadable(r)
                      THEN /\ out.results[i].snippet = NotFoundSnippet
                           /\ lastRequest.results[i].explanation.doc_text
                                 = EmptyText
                      ELSE /\ out.results[i].snippet = Snippet(text)
                           /\ lastRequest.results[i].explanation.doc_text
                                 = text

\* C14: a POST /search whose query is empty or holds whitespace only is
\* answered 400 in a step that constructs no pipeline, queries nothing and
\* leaves the pipeline singleton, the engine's index, id-map and metadata,
\* the cache and every file as they were.
C14_BlankQueryRejected ==
    [][ ( /\ lastRequest = NoRequest
          /\ lastRequest' # NoRequest
          /\ lastRequest'.query.text = 0 )
        => ( /\ lastRequest'.status = 400
             /\ ~lastRequest'.constructed
             /\ ~lastRequest'.queried
             /\ lastRequest'.results = <<>>
             /\ UNCHANGED <<pipeline, index, id_map, loaded, metadata,
                            cacheData, cacheFile, indexFile, idMapFile,
                            docFile>> ) ]_vars

\* a whitespace-only query turned away while there is no pipeline yet and
\* one could be constructed
C14_Witness ==
    /\ lastRequest.status = 400
    /\ lastRequest.query.pad = 1
    /\ lastRequest.query.text = 0
    /\ ~pipeline
    /\ CanConstruct

\* C15: the cache file always equals the in-memory cache of the
\* CacheManager; a step set(d, e, h) leaves d's entry holding e, h and the
\* current time, and every other entry as it was; a step clear leaves the
\* in-memory cache and the cache file empty.
C15_WriteThrough ==
    /\ [](cacheFile = cacheData)
    /\ [][ /\ \A d \in DocIds, t \in Texts :
                set(d, Encode(t), compute_sha256(t)) =>
                    /\ cacheData'[d] = [present |-> TRUE, doc_id |-> d,
                                        embedding |-> Encode(t),
                                        hash |-> compute_sha256(t),
                                        updated_at |-> now]
                    /\ \A x \in DocIds \ {d} : cacheData'[x] = cacheData[x]
                    /\ cacheFile' = cacheData'
           /\ clear => (cacheData' = EmptyCache /\ cacheFile' = EmptyCache)
         ]_vars

\* two entries written at different times, the earlier one still as it was
\* written, and the file equal to the memory
C15_Witness ==
    /\ cacheFile = cacheData
    /\ \E d, x \in DocIds :
          /\ d # x
          /\ cacheData[d].present
          /\ cacheData[x].present
          /\ cacheData[d].updated_at < cacheData[x].updated_at

\* C16: constructing a CacheManager never raises; over a file that is
\* missing, not parseable, or parseable but not a mapping from doc_id to
\* entry, it holds an empty cache and a get that follows returns absent.
C16_LoadNeverRaises ==
    loadCall.status # "none" =>
        /\ loadCall.status = "ok"
        /\ loadCall.file.kind # "json_object" =>
              /\ loadCall.data_kind = "dict"
              /\ loadCall.data = EmptyCache
              /\ loadCall.got.status \in {"none", "absent"}

\* C17: a build_index whose batch embedding call raises has made that call
\* more than once before it fails.
C17_EmbedFailureRetried ==
    lastBuild.status = "embed_error" => lastBuild.embed_calls > 1

\* the distinct words of a text that are no stopwords, whatever their case
KeywordsIn(text) ==
    {w \in Words \ STOPWORDS :
        \E i \in 1..Len(text) : text[i] = w \/ text[i] = 0 - w}
QueryKeywords == KeywordsIn(explainCall.query)
Intersection == QueryKeywords \cap KeywordsIn(explainCall.doc_text)

\* C18: the overlap ratio of every (query, document) pair lies between 0 and
\* 1 and equals |intersection| / |distinct filtered query tokens|; a query
\* with no token left after filtering gets no keywords and the ratio 0.0,
\* with a divisor that is not zero.
C18_OverlapRatio ==
    explainCall.status = "done" =>
        LET r == explainCall.overlap_ratio
        IN /\ r.den > 0
           /\ 0 <= r.num
           /\ r.num <= r.den
           /\ QueryKeywords # {} =>
                  r.num * Cardinality(QueryKeywords)
                      = Cardinality(Intersection) * r.den
           /\ QueryKeywords = {} =>
                  /\ explainCall.overlap_list = <<>>
                  /\ r.num = 0

\* a query with keywords, some but not all of them in the document
C18_Witness ==
    /\ explainCall.status = "done"
    /\ Intersection # {}
    /\ Intersection # QueryKeywords
    /\ explainCall.overlap_ratio.num * Cardinality(QueryKeywords)
           = Cardinality(Intersection) * explainCall.overlap_ratio.den

\* C19: overlap_keywords holds words of the intersection of the filtered
\* query tokens and the filtered document tokens only, each once, in
\* ascending alphabetical order; it is the first 10 of them (all of them when
\* there are at most 10); none is a stopword; and the ratio counts the whole
\* intersection, not the truncated list.
C19_OverlapKeywords ==
    explainCall.status = "done" =>
        LET l == explainCall.overlap_list
            listed == {l[i] : i \in 1..Len(l)}
            r == explainCall.overlap_ratio
        IN /\ listed \subseteq Intersection
           /\ \A i, j \in 1..Len(l) : i < j => l[i] < l[j]
           /\ Len(l) = IF Cardinality(Intersection) <= TopN
                       THEN Cardinality(Intersection)
                       ELSE TopN
           /\ \A w \in Intersection \ listed : \A v \in listed : v < w
           /\ listed \cap STOPWORDS = {}
           /\ QueryKeywords # {} =>
                  r.num * Cardinality(QueryKeywords)
                      = Cardinality(Intersection) * r.den

\* more than 10 keywords are shared, written with a stopword and a repeat
C19_Witness ==
    /\ explainCall.status = "done"
    /\ Cardinality(Intersection) > TopN
    /\ Len(explainCall.overlap_list) = TopN
    /\ explainCall.overlap_ratio.num > TopN
    /\ \E i \in 1..Len(explainCall.query) : explainCall.query[i] \in STOPWORDS
    /\ Len(extract_keywords(explainCall.query)) > Cardinality(QueryKeywords)

\* the unfiltered token count of the explained document
TokenCount ==
    Cardinality({i \in 1..Len(explainCall.doc_text) :
                    explainCall.doc_text[i] # 0})

\* C20: doc_length_norm lies in (0, 1], is strictly smaller for the document
\* with one more token (from no token to one token included), and is 1.0 for
\* no other token count than 0.
C20_LengthNorm ==
    explainCall.status = "done" =>
        /\ 0 < explainCall.length_norm
        /\ explainCall.length_norm <= One
        /\ doc_length_norm(explainCall.doc_text \o <<2>>)
               < explainCall.length_norm
        /\ explainCall.length_norm = One => TokenCount = 0

\* the set calls whose entry the persisted cache does not hold
LostUpdates ==
    {i \in 1..Len(setDone) : ~cacheFile[setDone[i].doc_id].present}
Writers == {setDone[i].by : i \in 1..Len(setDone)}

\* C21: each set rewrites the whole file from the instance's own copy: after
\* a set the persisted cache is the in-memory copy of the instance that made
\* the latest set, whatever the other instances had written; entries are
\* lost only when more than one instance has written.  (The lost update
\* itself is C21_Witness.)
C21_WholeFileFromOwnCopy ==
    /\ setDone # <<>> => cacheFile = managers[setDone[Len(setDone)].by].data
    /\ Cardinality(Writers) <= 1 => LostUpdates = {}

\* two instances loaded the empty file, each set one entry, and the entry
\* set first is absent from the persisted cache
C21_Witness ==
    /\ Len(setDone) = 2
    /\ setDone[1].by # setDone[2].by
    /\ managers[setDone[1].by].data[setDone[1].doc_id].present
    /\ 1 \in LostUpdates
    /\ 2 \notin LostUpdates

\* a build_index call ends at a document it cannot read or at the embedding
\* call that raises
BuildFails ==
    /\ builds' = builds + 1
    /\ lastBuild'.status \in {"read_error", "embed_error"}

\* C22: a build_index that fails at a document read or at the batch
\* embedding call leaves the persisted index, the persisted id-map and the
\* cache, in memory and persisted, exactly as they were before the call.
C22_FailedBuildWritesNothing ==
    [][BuildFails =>
          /\ indexFile' = indexFile
          /\ idMapFile' = idMapFile
          /\ cacheData' = cacheData
          /\ cacheFile' = cacheFile
          /\ cacheData' = lastBuild'.before]_vars

\* a build failed at the embedding call over a corpus that has grown since
\* the index, the id-map and the cache were last written
C22_Witness ==
    /\ lastBuild.status = "embed_error"
    /\ lastBuild.sent # <<>>
    /\ indexFile.exists
    /\ idMapFile.exists
    /\ cacheFile # EmptyCache
    /\ Len(metadata) > Len(indexFile.vecs)

\* a step of build_index: a call begins, or one of the files it writes changes
BuildStep ==
    \/ builds' # builds
    \/ indexFile' # indexFile
    \/ idMapFile' # idMapFile
    \/ cacheFile' # cacheFile

\* C23: no step of build_index changes the in-memory index or id-map; a
\* search that answers after a rebuild still answers from the index and the
\* id-map in memory, whatever the files hold by then; and the index and the
\* id-map a search answers from were assigned by one load_index call.
C23_BuildLeavesLoadedPair ==
    /\ [][BuildStep => (index' = index /\ id_map' = id_map)]_vars
    /\ [](lastSearch.status = "ok" =>
             /\ loadTag = PairTagged
             /\ Len(lastSearch.results) = Len(lastSearch.indices)
             /\ \A j \in 1..Len(lastSearch.results) :
                   /\ lastSearch.indices[j] \in 0..(Len(index.vecs) - 1)
                   /\ lastSearch.results[j].doc_id
                          = id_map.map[ToString(lastSearch.indices[j])])

\* a document was rewritten and the index rebuilt after load_index, and a
\* search has answered from the index and id-map loaded before the rebuild
C23_Witness ==
    /\ lastSearch.status = "ok"
    /\ lastSearch.results # <<>>
    /\ bpc = "idle"
    /\ lastBuild.status = "ok"
    /\ docFile # CorpusOf(1)
    /\ indexFile.build > index.build
    /\ idMapFile.build > id_map.build
    /\ loadTag = PairTagged

\* the constructor has returned or raised
Constructed == embedder.pc \in {"done", "raised"}

\* another attempt to load by name lies ahead
AttemptAhead == embedder.pc = "loop" /\ embedder.attempt <= embedder.retries

\* C24: Embedder construction terminates; the model is loaded by name at
\* most retries times, with no attempt after a success or a TypeError; every
\* sleep follows a failed attempt and precedes another attempt; the fallback
\* runs exactly when no attempt by name succeeded; and construction ends with
\* a loaded model or with a RuntimeError.
C24_ConstructionEnds ==
    /\ <>Constructed
    /\ [](embedder.tried <= embedder.retries)
    /\ [][embedder'.tried > embedder.tried =>
             (embedder.model = "None" /\ ~embedder.type_error)]_vars
    /\ [][embedder'.slept > embedder.slept =>
             /\ embedder.model = "None"
             /\ ~embedder.type_error
             /\ embedder.slept = embedder.tried - 1
             /\ embedder.tried < embedder.retries]_vars
    /\ [](embedder.slept =
             IF AttemptAhead \/ embedder.tried = 0 THEN embedder.tried
             ELSE embedder.tried - 1)
    /\ [](embedder.fallback => embedder.model # "by_name")
    /\ [](Constructed =>
             /\ embedder.fallback <=> embedder.model # "by_name"
             /\ embedder.pc = "done" => embedder.model # "None"
             /\ embedder.pc = "raised" =>
                    (embedder.model = "None"
                        /\ embedder.raised = "RuntimeError"))

\* every attempt by name failed, with a sleep between them and none after
\* the last, and the fallback loaded the model from the local folder
C24_Witness ==
    /\ embedder.pc = "done"
    /\ embedder.retries > 1
    /\ embedder.tried = embedder.retries
    /\ embedder.slept = embedder.retries - 1
    /\ embedder.fallback
    /\ embedder.model = "local"

====
